---------------------------- MODULE Spec2Model ----------------------------
(***************************************************************************)
(* A model of my_uploader.py: the KMZ -> combined KML pipeline.            *)
(*                                                                         *)
(* Text (file names, archive entry names, coordinate text, timestamps) is  *)
(* a sequence of one-character strings, so that lower(), endswith(),       *)
(* splitext(), split() and float() are computed character by character.    *)
(* A coordinate value is an integer number of 1/Scale degrees; float() is  *)
(* modelled on the decimal literals [-]digits[.digits] with at most        *)
(* FracDigits fraction digits, on which this arithmetic is exact.          *)
(***************************************************************************)
EXTENDS Integers, Sequences, FiniteSets, TLC

VARIABLES
    directory,    \* the directory: entries [filename, content] in os.listdir order
    upload,       \* args.upload
    pc,           \* position of the run
    idx,          \* aggregate_routes_from_directory: index of the next directory entry
    all_routes,   \* aggregate_routes_from_directory: all_routes; main: routes
    origin,       \* history: origin[i] = index of the directory entry all_routes[i] came from
    wi,           \* create_combined_kml: index of the next route
    polygons,     \* create_combined_kml: the polygons added to kml so far
    output,       \* the documents written at the output path, in order
    report,       \* the messages main and create_combined_kml printed
    uploads,      \* the files handed to upload_to_drive
    ring,         \* close_route_if_needed: the successive values of one coordinate list
    coords_text,  \* parse_kmz: the text of one <coordinates> element
    coords        \* parse_kmz: the coords list built from coords_text

vars == <<directory, upload, pc, idx, all_routes, origin, wi, polygons,
          output, report, uploads, ring, coords_text, coords>>

---------------------------------------------------------------------------
(* Bounds *)

MaxFiles == 2

MaxLen == 3

MaxCalls == 2

MaxTokens == 3

\* fraction digits a coordinate literal may carry (at least 6: the tolerance is 1e-6)
FracDigits == 7

---------------------------------------------------------------------------
(* Text *)

Digits == <<"0", "1", "2", "3", "4", "5", "6", "7", "8", "9">>

IsDigit(c) == \E i \in 1..10 : Digits[i] = c

DigitVal(c) == (CHOOSE i \in 1..10 : Digits[i] = c) - 1

Upper == <<"A", "B", "C", "D", "E", "F", "G", "H", "I", "J", "K", "L", "M",
           "N", "O", "P", "Q", "R", "S", "T", "U", "V", "W", "X", "Y", "Z">>

Lower == <<"a", "b", "c", "d", "e", "f", "g", "h", "i", "j", "k", "l", "m",
           "n", "o", "p", "q", "r", "s", "t", "u", "v", "w", "x", "y", "z">>

LowerChar(c) ==
    IF \E i \in 1..26 : Upper[i] = c
    THEN Lower[CHOOSE i \in 1..26 : Upper[i] = c]
    ELSE c

\* str.lower()
lower(s) == [i \in 1..Len(s) |-> LowerChar(s[i])]

\* str.endswith(suffix)
endswith(s, suffix) ==
    /\ Len(s) >= Len(suffix)
    /\ SubSeq(s, Len(s) - Len(suffix) + 1, Len(s)) = suffix

KmzExt == <<".", "k", "m", "z">>

KmlExt == <<".", "k", "m", "l">>

\* os.path.splitext(filename)[0] for a name without directory separators:
\* the extension starts at the last dot, unless only dots precede that dot.
SplitextRoot(p) ==
    LET dots == {i \in 1..Len(p) : p[i] = "."}
    IN  IF dots = {} THEN p
        ELSE LET dotIndex == CHOOSE i \in dots : \A j \in dots : j <= i
             IN  IF \E k \in 1..(dotIndex - 1) : p[k] # "."
                 THEN SubSeq(p, 1, dotIndex - 1)
                 ELSE p

RECURSIVE SplitOn(_, _)
\* str.split(sep) for a one-character sep: empty parts are kept
SplitOn(s, sep) ==
    IF \A i \in 1..Len(s) : s[i] # sep THEN <<s>>
    ELSE LET k == CHOOSE i \in 1..Len(s) :
                      s[i] = sep /\ \A j \in 1..(i - 1) : s[j] # sep
         IN  <<SubSeq(s, 1, k - 1)>> \o SplitOn(SubSeq(s, k + 1, Len(s)), sep)

IsSpace(c) == c = " "

RECURSIVE SplitWS(_)
\* str.strip().split(): maximal runs of non-whitespace characters
SplitWS(s) ==
    IF \A i \in 1..Len(s) : IsSpace(s[i]) THEN <<>>
    ELSE LET b == CHOOSE i \in 1..Len(s) :
                      ~IsSpace(s[i]) /\ \A j \in 1..(i - 1) : IsSpace(s[j])
             e == CHOOSE i \in b..Len(s) :
                      /\ \A j \in b..i : ~IsSpace(s[j])
                      /\ (i = Len(s) \/ IsSpace(s[i + 1]))
         IN  <<SubSeq(s, b, e)>> \o SplitWS(SubSeq(s, e + 1, Len(s)))

---------------------------------------------------------------------------
(* float() *)

RECURSIVE Pow10(_)
Pow10(n) == IF n = 0 THEN 1 ELSE 10 * Pow10(n - 1)

\* units per degree
Scale == Pow10(FracDigits)

RECURSIVE DecVal(_)
DecVal(s) == IF s = <<>> THEN 0
             ELSE 10 * DecVal(SubSeq(s, 1, Len(s) - 1)) + DigitVal(s[Len(s)])

AllDigits(s) == \A i \in 1..Len(s) : IsDigit(s[i])

\* whether float(s) returns (TRUE) or raises ValueError (FALSE), for text made of
\* digits, letters, "-" and "." other than the exponent, inf and nan forms
IsFloat(s) ==
    LET u == IF s # <<>> /\ s[1] = "-" THEN Tail(s) ELSE s
        p == SplitOn(u, ".")
    IN  /\ Len(p) \in {1, 2}
        /\ AllDigits(p[1])
        /\ Len(p) = 2 => AllDigits(p[2]) /\ Len(p[2]) <= FracDigits
        /\ \E i \in 1..Len(p) : p[i] # <<>>

\* float(s), in units of 1/Scale degree
FloatVal(s) ==
    LET neg == s # <<>> /\ s[1] = "-"
        u == IF neg THEN Tail(s) ELSE s
        p == SplitOn(u, ".")
        whole == DecVal(p[1]) * Scale
        frac == IF Len(p) = 2
                THEN DecVal(p[2]) * Pow10(FracDigits - Len(p[2]))
                ELSE 0
    IN  IF neg THEN 0 - (whole + frac) ELSE whole + frac

---------------------------------------------------------------------------
(* parse_kmz *)

\* ParseCoord with the try around the whole loop: a bad token ends the element
ParseCoord_DropAll(acc, coord) ==
    LET parts == SplitOn(coord, ",")
    IN  IF Len(parts) >= 2 /\ IsFloat(parts[1]) /\ IsFloat(parts[2])
        THEN Append(acc, <<FloatVal(parts[1]), FloatVal(parts[2])>>)
        ELSE <<>>

\* one iteration of "for coord in coords_text.split()": the coords list after it
ParseCoord(acc, coord) ==
    LET parts == SplitOn(coord, ",")
    IN  IF Len(parts) >= 2 /\ IsFloat(parts[1]) /\ IsFloat(parts[2])
        THEN Append(acc, <<FloatVal(parts[1]), FloatVal(parts[2])>>)
        ELSE acc

RECURSIVE ParseTokens(_, _)
ParseTokens(acc, tokens) ==
    IF tokens = <<>> THEN acc
    ELSE ParseTokens(ParseCoord(acc, Head(tokens)), Tail(tokens))

\* the coords list built from the text of one <coordinates> element
ParseCoords(text) == ParseTokens(<<>>, SplitWS(text))

\* LineStringRoutes without "if coords:"
LineStringRoutes_KeepEmpty(ls) ==
    IF ~ls.has_text \/ ls.text = <<>> THEN <<>>
    ELSE <<ParseCoords(ls.text)>>

\* the routes one LineString adds: none when it has no <coordinates> text
\* or no valid tuple
LineStringRoutes(ls) ==
    IF ~ls.has_text \/ ls.text = <<>> THEN <<>>
    ELSE IF ParseCoords(ls.text) = <<>> THEN <<>>
    ELSE <<ParseCoords(ls.text)>>

RECURSIVE LineStringsRoutes(_)
LineStringsRoutes(lss) ==
    IF lss = <<>> THEN <<>>
    ELSE LineStringRoutes(Head(lss)) \o LineStringsRoutes(Tail(lss))

RECURSIVE PlacemarksRoutes(_)
PlacemarksRoutes(pms) ==
    IF pms = <<>> THEN <<>>
    ELSE LineStringsRoutes(Head(pms)) \o PlacemarksRoutes(Tail(pms))

\* indexes of the archive entries whose name ends in .kml, case-insensitively
KmlEntries(entries) ==
    {i \in 1..Len(entries) : endswith(lower(entries[i].name), KmlExt)}

parse_kmz(content) ==
    IF content.kind # "zip" THEN <<>>                     \* ZipFile() raises
    ELSE IF KmlEntries(content.entries) = {} THEN <<>>    \* no KML file found
    ELSE LET k == CHOOSE i \in KmlEntries(content.entries) :
                      \A j \in KmlEntries(content.entries) : i <= j
             entry == content.entries[k]
         IN  IF entry.kind = "corrupt" THEN <<>>          \* kmz.read() raises
             ELSE IF entry.kind # "xml" THEN <<>>         \* ET.fromstring() raises
             ELSE PlacemarksRoutes(entry.doc.placemarks)

---------------------------------------------------------------------------
(* close_route_if_needed *)

\* 1e-6 degree
Tol == Scale \div 1000000

Abs(x) == IF x < 0 THEN 0 - x ELSE x

\* close_route_if_needed with "and" for "or"
close_route_if_needed_and(c) ==
    IF c = <<>> THEN c
    ELSE LET first == c[1]
             last == c[Len(c)]
         IN  IF Abs(first[1] - last[1]) > Tol /\ Abs(first[2] - last[2]) > Tol
             THEN Append(c, first)
             ELSE c

\* close_route_if_needed with "first != last" for the tolerance test
close_route_if_needed_exact(c) ==
    IF c = <<>> THEN c
    ELSE IF c[1] # c[Len(c)] THEN Append(c, c[1]) ELSE c

\* The value of the list after the call. The list is appended to in place and
\* returned, so this is both the returned value and the caller's list.
close_route_if_needed(c) ==
    IF c = <<>> THEN c
    ELSE LET first == c[1]
             last == c[Len(c)]
         IN  IF Abs(first[1] - last[1]) > Tol \/ Abs(first[2] - last[2]) > Tol
             THEN Append(c, first)
             ELSE c

---------------------------------------------------------------------------
(* The inputs: file names, archive contents *)

FileNames == {
    <<"r", "o", "u", "t", "e", "2", ".", "k", "m", "z">>,
    <<"r", "o", "u", "t", "e", "1", "0", ".", "K", "M", "Z">>,
    <<".", "k", "m", "z">>,
    <<"n", "o", "t", "e", "s", ".", "t", "x", "t">> }

NoDoc == [when |-> <<>>, placemarks |-> <<>>]

\* a <LineString> with a <coordinates> element holding text t
LS(t) == [has_text |-> TRUE, text |-> t]

\* a <LineString> without a <coordinates> element
LSNone == [has_text |-> FALSE, text |-> <<>>]

Other(n) == [name |-> n, kind |-> "other", doc |-> NoDoc]

Kml(n, d) == [name |-> n, kind |-> "xml", doc |-> d]

PngName == <<"a", ".", "p", "n", "g">>

DocKml == <<"d", "o", "c", ".", "k", "m", "l">>

DocKmlUpper == <<"D", "O", "C", ".", "K", "M", "L">>

\* not a zip file, or a corrupt one
NotZip == [kind |-> "notzip", entries |-> <<>>]

\* a zip file without a .kml entry
NoKml == [kind |-> "zip", entries |-> <<Other(PngName)>>]

\* a zip file whose .kml entry cannot be read
CorruptKml == [kind |-> "zip",
               entries |-> <<[name |-> DocKml, kind |-> "corrupt", doc |-> NoDoc]>>]

\* a zip file whose .kml entry is not well-formed XML
MalformedKml == [kind |-> "zip",
                 entries |-> <<[name |-> DocKml, kind |-> "malformed", doc |-> NoDoc]>>]

\* one open path, with a <TimeStamp><when>
OneRoute == [kind |-> "zip", entries |-> <<
    Other(PngName),
    Kml(DocKmlUpper,
        [when |-> <<"2", "0", "2", "3", "-", "0", "1", "-", "0", "2", "T", "0", "0", ":", "0", "0", ":", "0", "0", "Z">>,
         placemarks |-> << <<LS(<<"0", ",", "0", " ", "2", ",", "0", " ", " ", "2", ",", "2">>)>> >>]),
    Kml(DocKml, [when |-> <<>>, placemarks |-> << <<LS(<<"5", ",", "5">>)>> >>]) >>]

\* two paths (one closed within the tolerance, with an altitude and a bad token;
\* one of a single point), a LineString without valid tuples and one without
\* coordinates; no timestamp
TwoRoutes == [kind |-> "zip", entries |-> <<
    Kml(DocKml,
        [when |-> <<>>,
         placemarks |-> << <<LS(<<"1", ",", "1", ",", "9", " ", "x", " ", "3", ",", "1", " ", "1", ",", "1", ".", "0", "0", "0", "0", "0", "0", "5">>), LS(<<"y", ",", "1", " ", "7">>)>>,
                           <<LSNone>>,
                           <<LS(<<"5", ",", "5">>), LS(<<>>)>> >>]) >>]

\* a well-formed document without any valid tuple
NoGeometry == [kind |-> "zip", entries |-> <<
    Kml(DocKml, [when |-> <<>>, placemarks |-> << <<LS(<<"y", ",", "1", " ", "7">>), LS(<<" ">>)>> >>]) >>]

Contents == {NotZip, NoKml, CorruptKml, MalformedKml, OneRoute, TwoRoutes, NoGeometry}

Entries == [filename : FileNames, content : Contents]

SeqsUpTo(S, n) == UNION {[1..k -> S] : k \in 0..n}

\* os.listdir: any order, no name twice
Directories ==
    {d \in SeqsUpTo(Entries, MaxFiles) :
        \A i, j \in 1..Len(d) : i # j => d[i].filename # d[j].filename}

---------------------------------------------------------------------------
(* aggregate_routes_from_directory *)

IsKmz(filename) == endswith(lower(filename), KmzExt)

\* the dicts one directory entry appends to all_routes
EntryRoutes(e) ==
    IF IsKmz(e.filename)
    THEN LET routes == parse_kmz(e.content)
         IN  [i \in 1..Len(routes) |->
                 [name |-> SplitextRoot(e.filename), coords |-> routes[i]]]
    ELSE <<>>

\* whether reading or parsing the archive raises inside parse_kmz
ArchiveFails(content) ==
    \/ content.kind # "zip"
    \/ \A i \in 1..Len(content.entries) :
           ~endswith(lower(content.entries[i].name), KmlExt)
    \/ \E i \in 1..Len(content.entries) :
           /\ endswith(lower(content.entries[i].name), KmlExt)
           /\ \A j \in 1..(i - 1) : ~endswith(lower(content.entries[j].name), KmlExt)
           /\ content.entries[i].kind # "xml"

\* AggregateStep with parse_kmz's exceptions not caught: a failing archive ends the run
AggregateStep_Abort ==
    /\ pc = "aggregate"
    /\ idx <= Len(directory)
    /\ IF IsKmz(directory[idx].filename) /\ ArchiveFails(directory[idx].content)
       THEN /\ pc' = "done"
            /\ UNCHANGED <<idx, all_routes, origin>>
       ELSE /\ all_routes' = all_routes \o EntryRoutes(directory[idx])
            /\ origin' = origin \o [i \in 1..Len(EntryRoutes(directory[idx])) |-> idx]
            /\ idx' = idx + 1
            /\ pc' = pc
    /\ UNCHANGED <<directory, upload, wi, polygons, output, report, uploads,
                   ring, coords_text, coords>>

RECURSIVE aggregate_routes_from_directory(_)
\* the list the whole loop returns
aggregate_routes_from_directory(d) ==
    IF d = <<>> THEN <<>>
    ELSE EntryRoutes(Head(d)) \o aggregate_routes_from_directory(Tail(d))

\* one iteration of "for filename in os.listdir(directory)"
AggregateStep ==
    /\ pc = "aggregate"
    /\ idx <= Len(directory)
    /\ all_routes' = all_routes \o EntryRoutes(directory[idx])
    /\ origin' = origin \o [i \in 1..Len(EntryRoutes(directory[idx])) |-> idx]
    /\ idx' = idx + 1
    /\ UNCHANGED <<directory, upload, pc, wi, polygons, output, report, uploads,
                   ring, coords_text, coords>>

---------------------------------------------------------------------------
(* main *)

NoRoutesMsg == "No routes found in the directory."

SavedMsg == "Combined KML saved"

\* "if not routes: print(...); return"
NoRoutes ==
    /\ pc = "aggregate"
    /\ idx > Len(directory)
    /\ all_routes = <<>>
    /\ report' = Append(report, NoRoutesMsg)
    /\ pc' = "done"
    /\ UNCHANGED <<directory, upload, idx, all_routes, origin, wi, polygons,
                   output, uploads, ring, coords_text, coords>>

\* StartWrite without "if not routes: return"
StartWrite_NoGuard ==
    /\ pc = "aggregate"
    /\ idx > Len(directory)
    /\ pc' = "write"
    /\ wi' = 1
    /\ polygons' = <<>>
    /\ UNCHANGED <<directory, upload, idx, all_routes, origin, output, report,
                   uploads, ring, coords_text, coords>>

\* the call create_combined_kml(routes, args.output)
StartWrite ==
    /\ pc = "aggregate"
    /\ idx > Len(directory)
    /\ all_routes # <<>>
    /\ pc' = "write"
    /\ wi' = 1
    /\ polygons' = <<>>
    /\ UNCHANGED <<directory, upload, idx, all_routes, origin, output, report,
                   uploads, ring, coords_text, coords>>

---------------------------------------------------------------------------
(* create_combined_kml *)

\* WriteRoute without the call of close_route_if_needed
WriteRoute_NoClose ==
    /\ pc = "write"
    /\ wi <= Len(all_routes)
    /\ polygons' = Append(polygons,
           [name |-> all_routes[wi].name, outerboundaryis |-> all_routes[wi].coords])
    /\ wi' = wi + 1
    /\ UNCHANGED <<directory, upload, pc, idx, all_routes, origin, output, report,
                   uploads, ring, coords_text, coords>>

\* one iteration of "for route in routes": close_route_if_needed appends to the
\* list route['coords'] refers to, and the polygon's boundary is that same list
WriteRoute ==
    /\ pc = "write"
    /\ wi <= Len(all_routes)
    /\ LET closed == close_route_if_needed(all_routes[wi].coords)
       IN  /\ all_routes' = [all_routes EXCEPT ![wi].coords = closed]
           /\ polygons' = Append(polygons,
                  [name |-> all_routes[wi].name, outerboundaryis |-> closed])
    /\ wi' = wi + 1
    /\ UNCHANGED <<directory, upload, pc, idx, origin, output, report, uploads,
                   ring, coords_text, coords>>

\* kml.save(output_file), the message, and the return to main
Save ==
    /\ pc = "write"
    /\ wi > Len(all_routes)
    /\ output' = Append(output, polygons)
    /\ report' = Append(report, SavedMsg)
    /\ pc' = IF upload THEN "upload" ELSE "done"
    /\ UNCHANGED <<directory, upload, idx, all_routes, origin, wi, polygons,
                   uploads, ring, coords_text, coords>>

\* upload_to_drive(args.output, ...): the file at the output path is handed over
Upload ==
    /\ pc = "upload"
    /\ uploads' = Append(uploads, output[Len(output)])
    /\ pc' = "done"
    /\ UNCHANGED <<directory, upload, idx, all_routes, origin, wi, polygons,
                   output, report, ring, coords_text, coords>>

---------------------------------------------------------------------------
(* The run of main over any directory *)

Init ==
    /\ directory \in Directories
    /\ upload \in BOOLEAN
    /\ pc = "aggregate"
    /\ idx = 1
    /\ all_routes = <<>>
    /\ origin = <<>>
    /\ wi = 1
    /\ polygons = <<>>
    /\ output = <<>>
    /\ report = <<>>
    /\ uploads = <<>>
    /\ ring = <<>>
    /\ coords_text = <<>>
    /\ coords = <<>>

Next ==
    \/ AggregateStep
    \/ NoRoutes
    \/ StartWrite
    \/ WriteRoute
    \/ Save
    \/ Upload

Spec == Init /\ [][Next]_vars

---------------------------------------------------------------------------
(* close_route_if_needed applied again and again to one list *)

Coordinates == {<<0, 0>>, <<Tol \div 2, 0>>, <<0, 2 * Tol>>,
                <<2 * Tol, 2 * Tol>>, <<0 - 2 * Tol, 0>>}

Geometries == SeqsUpTo(Coordinates, MaxLen)

InitClose ==
    /\ ring \in {<<g>> : g \in Geometries}
    /\ pc = "close"
    /\ directory = <<>>
    /\ upload = FALSE
    /\ idx = 1
    /\ all_routes = <<>>
    /\ origin = <<>>
    /\ wi = 1
    /\ polygons = <<>>
    /\ output = <<>>
    /\ report = <<>>
    /\ uploads = <<>>
    /\ coords_text = <<>>
    /\ coords = <<>>

\* coords = close_route_if_needed(coords)
CloseCall ==
    /\ pc = "close"
    /\ Len(ring) <= MaxCalls
    /\ ring' = Append(ring, close_route_if_needed(ring[Len(ring)]))
    /\ UNCHANGED <<directory, upload, pc, idx, all_routes, origin, wi, polygons,
                   output, report, uploads, coords_text, coords>>

NextClose == CloseCall

SpecClose == InitClose /\ [][NextClose]_vars

---------------------------------------------------------------------------
(* parse_kmz's coordinate loop on the text of one <coordinates> element *)

Tokens == {
    <<"1", ",", "2">>,
    <<"3", ",", "4", ",", "9">>,
    <<"-", "1", ".", "5", ",", "2", ".", "0", "0", "0", "0", "0", "0", "5">>,
    <<"x", ",", "2">>,
    <<"7">>,
    <<"1", ",", ",", "5">>,
    <<"2", ",", "y", ",", "3">>,
    <<",", "1", ",", "2">> }

RECURSIVE JoinWS(_)
JoinWS(ts) ==
    IF ts = <<>> THEN <<>>
    ELSE IF Len(ts) = 1 THEN ts[1]
    ELSE ts[1] \o <<" ">> \o JoinWS(Tail(ts))

Texts == {JoinWS(ts) : ts \in SeqsUpTo(Tokens, MaxTokens)}

InitParse ==
    /\ coords_text \in Texts
    /\ coords = <<>>
    /\ pc = "parse"
    /\ directory = <<>>
    /\ upload = FALSE
    /\ idx = 1
    /\ all_routes = <<>>
    /\ origin = <<>>
    /\ wi = 1
    /\ polygons = <<>>
    /\ output = <<>>
    /\ report = <<>>
    /\ uploads = <<>>
    /\ ring = <<>>

\* coords = []; for coord in coords_text.split(): ...
ParseLineString ==
    /\ pc = "parse"
    /\ coords' = ParseCoords(coords_text)
    /\ pc' = "parsed"
    /\ UNCHANGED <<directory, upload, idx, all_routes, origin, wi, polygons,
                   output, report, uploads, ring, coords_text>>

NextParse == ParseLineString

SpecParse == InitParse /\ [][NextParse]_vars

---------------------------------------------------------------------------
(* Vocabulary of the properties *)

\* the first archive entry whose name ends in .kml
FirstKml(content) ==
    content.entries[CHOOSE i \in 1..Len(content.entries) :
        /\ endswith(lower(content.entries[i].name), KmlExt)
        /\ \A j \in 1..(i - 1) : ~endswith(lower(content.entries[j].name), KmlExt)]

\* a token with at least 2 comma-separated components whose first two are numbers
ValidToken(tok) ==
    LET parts == SplitOn(tok, ",")
    IN  Len(parts) >= 2 /\ IsFloat(parts[1]) /\ IsFloat(parts[2])

\* the (lon, lat) of a valid token
TokenCoordinate(tok) ==
    LET parts == SplitOn(tok, ",")
    IN  <<FloatVal(parts[1]), FloatVal(parts[2])>>

\* the subsequence of valid tokens, mapped to (lon, lat)
ValidCoordinates(tokens) ==
    LET valid == SelectSeq(tokens, ValidToken)
    IN  [i \in 1..Len(valid) |-> TokenCoordinate(valid[i])]

\* the LineStrings of a document, in document order
AllLineStrings(doc) ==
    LET RECURSIVE Flat(_)
        Flat(pms) == IF pms = <<>> THEN <<>> ELSE Head(pms) \o Flat(Tail(pms))
    IN  Flat(doc.placemarks)

HasValidTuple(ls) ==
    ls.has_text /\ \E i \in 1..Len(SplitWS(ls.text)) : ValidToken(SplitWS(ls.text)[i])

\* the geometries of a non-failing archive, in document order
ArchiveGeometries(content) ==
    LET with == SelectSeq(AllLineStrings(FirstKml(content).doc), HasValidTuple)
    IN  [i \in 1..Len(with) |-> ValidCoordinates(SplitWS(with[i].text))]

\* first and last coordinates differ by more than the tolerance on some axis
Differ(g) ==
    \/ Abs(g[1][1] - g[Len(g)][1]) > Tol
    \/ Abs(g[1][2] - g[Len(g)][2]) > Tol

\* b is g passed through the Ring Closer
IsRingOf(b, g) ==
    /\ g # <<>>
    /\ ~Differ(b)
    /\ IF Differ(g) THEN b = Append(g, g[1]) ELSE b = g

\* the name has an extension: a last dot with some other character before it
HasExtension(f) ==
    \E i \in 1..Len(f) :
        /\ f[i] = "."
        /\ \A j \in (i + 1)..Len(f) : f[j] # "."
        /\ \E k \in 1..(i - 1) : f[k] # "."

\* n is f with its extension stripped
IsBaseName(n, f) ==
    IF HasExtension(f)
    THEN /\ Len(n) < Len(f)
         /\ n = SubSeq(f, 1, Len(n))
         /\ f[Len(n) + 1] = "."
         /\ \A j \in (Len(n) + 2)..Len(f) : f[j] # "."
    ELSE n = f

CharOrder == <<".">> \o Digits \o Lower

Ord(c) == CHOOSE i \in 1..Len(CharOrder) : CharOrder[i] = c

RECURSIVE TextLess(_, _)
TextLess(a, b) ==
    IF b = <<>> THEN FALSE
    ELSE IF a = <<>> THEN TRUE
    ELSE IF a[1] = b[1] THEN TextLess(Tail(a), Tail(b))
    ELSE Ord(a[1]) < Ord(b[1])

RECURSIVE Runs(_)
\* the maximal runs of digit and of non-digit characters
Runs(s) ==
    IF s = <<>> THEN <<>>
    ELSE LET n == CHOOSE k \in 1..Len(s) :
                      /\ \A j \in 1..k : IsDigit(s[j]) = IsDigit(s[1])
                      /\ (k = Len(s) \/ IsDigit(s[k + 1]) # IsDigit(s[1]))
         IN  <<SubSeq(s, 1, n)>> \o Runs(SubSeq(s, n + 1, Len(s)))

RunEq(a, b) ==
    IF AllDigits(a) /\ AllDigits(b) THEN DecVal(a) = DecVal(b)
    ELSE lower(a) = lower(b)

RunLess(a, b) ==
    IF AllDigits(a) /\ AllDigits(b) THEN DecVal(a) < DecVal(b)
    ELSE TextLess(lower(a), lower(b))

RECURSIVE KeyLess(_, _)
KeyLess(ka, kb) ==
    IF kb = <<>> THEN FALSE
    ELSE IF ka = <<>> THEN TRUE
    ELSE IF RunEq(ka[1], kb[1]) THEN KeyLess(Tail(ka), Tail(kb))
    ELSE RunLess(ka[1], kb[1])

\* a does not sort after b in natural order
NaturalLeq(a, b) == ~KeyLess(Runs(b), Runs(a))

\* YYYYMMDD of an ISO-8601 timestamp, a space, the name; the name alone without one
Label(name, when) ==
    IF when = <<>> THEN name
    ELSE SubSeq(when, 1, 4) \o SubSeq(when, 6, 7) \o SubSeq(when, 9, 10)
             \o <<" ">> \o name

Matching(d) == {k \in 1..Len(d) : IsKmz(d[k].filename)}

---------------------------------------------------------------------------
(* Properties *)

\* C1: when the aggregated collection is empty, create_combined_kml is never
\* entered, nothing is written or uploaded, and the run ends with the
\* "No routes found" message alone.
C1_EmptyCollectionWritesNothing ==
    (idx > Len(directory) /\ all_routes = <<>>) =>
        /\ pc \in {"aggregate", "done"}
        /\ polygons = <<>>
        /\ output = <<>>
        /\ uploads = <<>>
        /\ pc = "done" => report = <<NoRoutesMsg>>

\* C1: a run over matching archives that all yield no geometry, with --upload, has ended
C1_Witness ==
    /\ pc = "done"
    /\ all_routes = <<>>
    /\ upload
    /\ Len(directory) = MaxFiles
    /\ Matching(directory) = 1..Len(directory)
    /\ \E k \in 1..Len(directory) : ~ArchiveFails(directory[k].content)
    /\ report = <<NoRoutesMsg>>

\* C2: the collection the Aggregator returns is sorted by name in natural order,
\* whatever order the directory is enumerated in.
C2_SortedByNaturalOrder ==
    idx > Len(directory) =>
        \A i, j \in 1..Len(all_routes) :
            i < j => NaturalLeq(all_routes[i].name, all_routes[j].name)

\* C3: a failing archive contributes no route and never stops the batch: every
\* entry is processed, and the collection holds exactly the geometries of the
\* matching archives that did not fail, archive by archive.
C3_FailingArchiveSkipped ==
    /\ pc # "aggregate" => idx = Len(directory) + 1
    /\ Len(origin) = Len(all_routes)
    /\ \A i \in 1..Len(all_routes) :
          /\ origin[i] \in Matching(directory)
          /\ origin[i] < idx
          /\ ~ArchiveFails(directory[origin[i]].content)
          /\ \A j \in 1..Len(all_routes) : i < j => origin[i] <= origin[j]
    /\ \A k \in Matching(directory) :
          (k < idx /\ ~ArchiveFails(directory[k].content)) =>
              LET g == ArchiveGeometries(directory[k].content)
                  base == Cardinality({i \in 1..Len(origin) : origin[i] < k})
              IN  /\ Cardinality({i \in 1..Len(origin) : origin[i] = k}) = Len(g)
                  /\ pc = "aggregate" =>
                        \A j \in 1..Len(g) : all_routes[base + j].coords = g[j]

\* C3: the run went past a failing archive listed first and collected the routes
\* of the archive after it
C3_Witness ==
    /\ pc = "done"
    /\ Len(directory) >= 2
    /\ Matching(directory) = 1..Len(directory)
    /\ ArchiveFails(directory[1].content)
    /\ \E i \in 1..Len(origin) : origin[i] = 2

\* C4: while create_combined_kml runs, the geometry of no route in the
\* collection changes.
C4_WriterLeavesGeometry ==
    [][pc = "write" => all_routes' = all_routes]_vars

\* C5: each polygon's label is the route's name when the route's archive has no
\* timestamp, and otherwise YYYYMMDD of that timestamp, a space, then the name.
C5_LabelCarriesDate ==
    \A n \in 1..Len(output) : \A i \in 1..Len(output[n]) :
        output[n][i].name =
            Label(all_routes[i].name, FirstKml(directory[origin[i]].content).doc.when)

\* C6: a non-empty geometry whose ends differ by more than the tolerance on some
\* axis comes back one longer, with its coordinates first and in order, and
\* with its last coordinate equal to its first.
C6_OpenGeometryClosed ==
    (Len(ring) >= 2 /\ ring[1] # <<>> /\ Differ(ring[1])) =>
        LET g == ring[1]
            r == ring[2]
        IN  /\ Len(r) = Len(g) + 1
            /\ SubSeq(r, 1, Len(g)) = g
            /\ r[Len(r)] = r[1]

\* C6: a geometry of MaxLen points whose ends differ on the latitude axis alone
\* has been through close_route_if_needed
C6_Witness ==
    /\ Len(ring) >= 2
    /\ Len(ring[1]) = MaxLen
    /\ Abs(ring[1][1][1] - ring[1][MaxLen][1]) <= Tol
    /\ Abs(ring[1][1][2] - ring[1][MaxLen][2]) > Tol
    /\ Len(ring[2]) = MaxLen + 1

\* C7: closing is idempotent (a second call and every later one change nothing),
\* and a geometry that is empty or closed within the tolerance comes back as it is.
C7_CloseIdempotent ==
    /\ \A k \in 2..(Len(ring) - 1) : ring[k + 1] = ring[k]
    /\ (Len(ring) >= 2 /\ (ring[1] = <<>> \/ ~Differ(ring[1]))) => ring[2] = ring[1]

\* C7: a list has been closed twice, the first call having appended to it
C7_Witness ==
    /\ Len(ring) >= 3
    /\ Len(ring[1]) >= 2
    /\ ring[2] # ring[1]
    /\ ring[3] = ring[2]

\* C8: for a non-empty collection of n routes one document is written, once,
\* holding n polygons in collection order, the i-th named after the i-th route
\* and bounded by that route's geometry passed through the Ring Closer.
C8_OnePolygonPerRoute ==
    LET routes == aggregate_routes_from_directory(directory)
    IN  /\ Len(output) <= 1
        /\ pc = "write" => Len(polygons) = wi - 1
        /\ (pc \in {"upload", "done"} /\ routes # <<>>) => Len(output) = 1
        /\ \A n \in 1..Len(output) :
              /\ Len(output[n]) = Len(routes)
              /\ routes # <<>>
              /\ \A i \in 1..Len(routes) :
                    /\ output[n][i].name = routes[i].name
                    /\ IsRingOf(output[n][i].outerboundaryis, routes[i].coords)

\* C8: a document of at least three polygons was written, one boundary left as
\* parsed and one with the first coordinate appended
C8_Witness ==
    /\ pc = "done"
    /\ Len(output) = 1
    /\ Len(output[1]) >= 3
    /\ \E i, j \in 1..Len(output[1]) :
          LET routes == aggregate_routes_from_directory(directory)
          IN  /\ output[1][i].outerboundaryis = routes[i].coords
              /\ Len(output[1][j].outerboundaryis) = Len(routes[j].coords) + 1

\* C9: every route of the collection has a non-empty geometry, comes from a
\* matching archive that has a LineString with a valid tuple, and is named after
\* that archive's file name with the extension stripped.
C9_RoutesWellFormed ==
    \A i \in 1..Len(all_routes) :
        LET e == directory[origin[i]]
        IN  /\ all_routes[i].coords # <<>>
            /\ IsKmz(e.filename)
            /\ IsBaseName(all_routes[i].name, e.filename)
            /\ ArchiveGeometries(e.content) # <<>>

\* C9: the collection holds a route although an archive without any valid tuple
\* and a LineString without valid tuples were processed
C9_Witness ==
    /\ idx > Len(directory)
    /\ all_routes # <<>>
    /\ \E k \in Matching(directory) :
          /\ ~ArchiveFails(directory[k].content)
          /\ ArchiveGeometries(directory[k].content) = <<>>
    /\ \E i \in 1..Len(all_routes) :
          LET lss == AllLineStrings(FirstKml(directory[origin[i]].content).doc)
          IN  \E j \in 1..Len(lss) : lss[j].has_text /\ ~HasValidTuple(lss[j])

\* C10: the geometry parsed from a coordinate text is the subsequence of its
\* valid tokens, each mapped to (lon, lat), in their order.
C10_ValidTokensKept ==
    pc = "parsed" => coords = ValidCoordinates(SplitWS(coords_text))

\* C10: a text of a valid token, an invalid one and a valid one with an altitude
\* has been parsed to two coordinates
C10_Witness ==
    /\ pc = "parsed"
    /\ LET tokens == SplitWS(coords_text)
       IN  /\ Len(tokens) = 3
           /\ ValidToken(tokens[1])
           /\ ~ValidToken(tokens[2])
           /\ ValidToken(tokens[3])
           /\ Len(SplitOn(tokens[3], ",")) = 3
    /\ Len(coords) = 2

====
